---- MODULE Spec2Model ----
(***************************************************************************)
(* A model of DrawingTool (src/src/drawing/drawing-tool.ts): the click and *)
(* move handlers of the placement state machine, the drawing registry, and *)
(* the attach/detach lifecycle of the drawings they handle.                *)
(*                                                                         *)
(* Every handler is an operator from a tool state (a record holding the    *)
(* fields of the class and the drawing objects on the heap) to the tool    *)
(* state it leaves; every action applies one handler to the current state. *)
(***************************************************************************)
EXTENDS Integers, Sequences, FiniteSets, TLC

VARIABLES
    drawings,               \* _drawings: the registry, a sequence of references
    activeDrawing,          \* _activeDrawing: a reference or Null
    isDrawing,              \* _isDrawing
    drawingType,            \* _drawingType: a variant or NoType
    measureClickCount,      \* _measureClickCount
    finishDrawingCallback,  \* whether a _finishDrawingCallback was supplied
    heap,                   \* the Drawing objects, indexed by reference
    finishCalls,            \* how often _finishDrawingCallback was invoked
    hovered,                \* the _handleHoverInteraction calls made by the last operation
    lastOp,                 \* history: the operation that led to this state
    axis,                   \* the time scale of the chart the tool draws on
    run,                    \* history: beginDrawing from Idle and the clicks after it
    lenAtBegin,             \* history: registry length at that beginDrawing
    finishAtBegin           \* history: finishCalls at that beginDrawing

vars == <<drawings, activeDrawing, isDrawing, drawingType, measureClickCount,
          finishDrawingCallback, heap, finishCalls, hovered,
          axis, lastOp, run, lenAtBegin, finishAtBegin>>

----------------------------------------------------------------------------
(* Bounds of the model *)

\* how many drawings the click handler may construct in one behaviour
MaxCreated == 1

\* how long the registry may grow through addNewDrawing
MaxLen == 3

\* how many drawings the click handler may construct in a behaviour of
\* SpecNoStop, which has fewer operations and affords one more
MaxCreatedNoStop == 2

----------------------------------------------------------------------------
(* Values *)

\* the null reference (references are positive heap indices)
Null == 0

\* _drawingType == null
NoType == "null"

\* the constructors beginDrawing is called with
Types == {"HorizontalLine", "Measure", "TrendLine"}

\* a null point: a failed event resolution, or an unplaced slot of a drawing
NoPoint == [nil |-> TRUE]

\* a Point {time, logical, price}; time 0 stands for a missing (falsy) time
Pt(t, l, p) == [time |-> t, logical |-> l, price |-> p]

\* the points the events of the model resolve to: one on a bar (it has a
\* time), one in the whitespace right of the data (logical index only)
PointA == Pt(1, 1, 100)

PointB == Pt(0, 2, 101)

EventPoints == {PointA, PointB}

\* the times the points of the model carry
Times == {1}

\* the screen coordinates and the logical indices the time scales of the
\* model know
Coords == {0, 1}

Logicals == {0, 1}

\* timeToCoordinate(t) == null and coordinateToLogical(x) == null
NoCoordinate == -1

NoLogical == -1

\* the time scale of an empty chart: nothing maps
EmptyAxis ==
    [timeToCoordinate |-> [t \in Times |-> NoCoordinate],
     coordinateToLogical |-> [x \in Coords |-> NoLogical]]

\* the time scales of the model: the empty one, and those that map every
\* coordinate to a logical index, in order, and a time to a coordinate or not
Axes ==
    {EmptyAxis} \cup
    {[timeToCoordinate |-> f, coordinateToLogical |-> g] :
        f \in [Times -> Coords \cup {NoCoordinate}],
        g \in {h \in [Coords -> Logicals] : h[0] <= h[1]}}

\* the time scale under which the events of the model resolve to their
\* points: PointA lies on the bar at logical index 1
ChartAxis ==
    [timeToCoordinate |-> [t \in Times |-> 1],
     coordinateToLogical |-> [x \in Coords |-> x]]

\* a mouse event, as far as the tool reads it: the point it resolves to
Events == EventPoints \cup {NoPoint}

\* a null MouseEventParams (only _onMouseMove tests for it)
NullParam == [nullParam |-> TRUE]

\* the drawings the application constructs itself and hands to addNewDrawing:
\* one, with an unplaced second point
ExtDrawings ==
    << [type |-> "TrendLine", points |-> <<PointA, NoPoint>>, attached |-> FALSE] >>

ExtRefs == 1 .. Len(ExtDrawings)

Range(s) == {s[i] : i \in 1 .. Len(s)}

----------------------------------------------------------------------------
(* The tool state and the Drawing / series operations the tool calls *)

\* the current tool state as a record; hovered logs the hover calls of the
\* operation about to run, so it starts empty
Cur ==
    [drawings |-> drawings, activeDrawing |-> activeDrawing, isDrawing |-> isDrawing,
     drawingType |-> drawingType, measureClickCount |-> measureClickCount,
     finishDrawingCallback |-> finishDrawingCallback, heap |-> heap,
     finishCalls |-> finishCalls, hovered |-> <<>>]

\* Drawing._eventToPoint(param, series): the point of the event, or null
eventToPoint(param) == param

\* new DrawingType(p1, p2): a detached drawing holding the two points
NewDrawing(T, p1, p2) == [type |-> T, points |-> <<p1, p2>>, attached |-> FALSE]

\* series.attachPrimitive(d)
attachPrimitive(s, d) == [s EXCEPT !.heap[d].attached = TRUE]

\* d.detach()
detach(s, d) == [s EXCEPT !.heap[d].attached = FALSE]

\* d.updatePoints(null, p): a null argument keeps the point it stands for
updatePoints(s, d, p1, p2) ==
    [s EXCEPT !.heap[d].points =
        << IF p1 = NoPoint THEN @[1] ELSE p1, IF p2 = NoPoint THEN @[2] ELSE p2 >>]

\* this._finishDrawingCallback()
callFinish(s) == [s EXCEPT !.finishCalls = @ + 1]

----------------------------------------------------------------------------
(* The methods of DrawingTool *)

beginDrawing(s, T) ==
    LET s1 == [s EXCEPT !.drawingType = T, !.isDrawing = TRUE]
    IN  IF T = "Measure" THEN [s1 EXCEPT !.measureClickCount = 0] ELSE s1

\* stopDrawing that also clears the pending type
stopDrawing_clearType(s) ==
    [s EXCEPT !.isDrawing = FALSE, !.activeDrawing = Null, !.measureClickCount = 0,
              !.drawingType = NoType]

\* stopDrawing that also detaches the active drawing
stopDrawing_detachPreview(s) ==
    LET s1 == IF s.activeDrawing # Null THEN detach(s, s.activeDrawing) ELSE s
    IN  [s1 EXCEPT !.isDrawing = FALSE, !.activeDrawing = Null, !.measureClickCount = 0]

\* stopDrawing that forgets to drop the active drawing
stopDrawing_keepActive(s) ==
    [s EXCEPT !.isDrawing = FALSE, !.measureClickCount = 0]

stopDrawing(s) ==
    [s EXCEPT !.isDrawing = FALSE, !.activeDrawing = Null, !.measureClickCount = 0]

addNewDrawing(s, d) ==
    LET s1 == attachPrimitive(s, d)
    IN  [s1 EXCEPT !.drawings = Append(@, d)]

\* Array.indexOf: the first index holding d, or 0 (the code's -1) when absent
indexOf(seq, d) ==
    IF d \in Range(seq) THEN CHOOSE i \in 1 .. Len(seq) :
                                 seq[i] = d /\ \A j \in 1 .. (i - 1) : seq[j] # d
    ELSE 0

\* Array.splice(idx): without the count it removes everything from idx on
splice_toEnd(seq, idx) == SubSeq(seq, 1, idx - 1)

\* Array.splice(idx, 1)
splice(seq, idx) == SubSeq(seq, 1, idx - 1) \o SubSeq(seq, idx + 1, Len(seq))

delete(s, d) ==
    IF d = Null THEN s
    ELSE LET idx == indexOf(s.drawings, d)
         IN  IF idx = 0 THEN s
             ELSE detach([s EXCEPT !.drawings = splice(@, idx)], d)

RECURSIVE detachAll(_, _, _)
\* for (const d of this._drawings) d.detach(), from index i on
detachAll(s, seq, i) ==
    IF i > Len(seq) THEN s ELSE detachAll(detach(s, seq[i]), seq, i + 1)

\* clearDrawings that empties the array and detaches nothing
clearDrawings_noDetach(s) == [s EXCEPT !.drawings = <<>>]

clearDrawings(s) ==
    LET s1 == detachAll(s, s.drawings, 1)
    IN  [s1 EXCEPT !.drawings = <<>>]

\* a first Measure click that also calls the finish callback
measureFirstClick_notify(s, point) ==
    LET d  == Len(s.heap) + 1
        s1 == [s EXCEPT !.heap = Append(@, NewDrawing("Measure", point, point)),
                        !.activeDrawing = d, !.measureClickCount = @ + 1]
        s2 == attachPrimitive(s1, d)
    IN  IF s2.finishDrawingCallback THEN callFinish(s2) ELSE s2

\* the first click of a Measure: construct it on the point, attach it, count
measureFirstClick(s, point) ==
    LET d  == Len(s.heap) + 1
        s1 == [s EXCEPT !.heap = Append(@, NewDrawing("Measure", point, point)),
                        !.activeDrawing = d]
        s2 == attachPrimitive(s1, d)
    IN  [s2 EXCEPT !.measureClickCount = @ + 1]

\* a second Measure click that drops the preview and leaves it attached
measureSecondClick_noDetach(s) ==
    LET s1 == [s EXCEPT !.activeDrawing = Null, !.measureClickCount = 0]
    IN  IF s1.finishDrawingCallback THEN callFinish(s1) ELSE s1

\* the second click of a Measure: detach and drop it, reset the count, notify
measureSecondClick(s) ==
    LET s1 == IF s.activeDrawing # Null
              THEN [detach(s, s.activeDrawing) EXCEPT !.activeDrawing = Null]
              ELSE s
        s2 == [s1 EXCEPT !.measureClickCount = 0]
    IN  IF s2.finishDrawingCallback THEN callFinish(s2) ELSE s2

\* a first click that constructs the preview and does not attach it
firstClick_noAttach(s, point) ==
    [s EXCEPT !.heap = Append(@, NewDrawing(s.drawingType, point, point)),
              !.activeDrawing = Len(s.heap) + 1]

\* a click with no active drawing: construct the pending variant, attach it
firstClick(s, point) ==
    LET d  == Len(s.heap) + 1
        s1 == [s EXCEPT !.heap = Append(@, NewDrawing(s.drawingType, point, point)),
                        !.activeDrawing = d]
    IN  attachPrimitive(s1, d)

\* no variant completes on its first click
isSingleClick_never(T) == FALSE

\* the variant whose first click is followed by a synthetic second one
isSingleClick(T) == T = "HorizontalLine"

\* a commit that pushes the active drawing and keeps drawing
commit_noStop(s) ==
    LET s1 == [s EXCEPT !.drawings = Append(@, s.activeDrawing)]
    IN  IF ~s1.finishDrawingCallback THEN s1 ELSE callFinish(s1)

\* a commit that pushes the active drawing twice
commit_pushTwice(s) ==
    LET s1 == [s EXCEPT !.drawings = Append(Append(@, s.activeDrawing), s.activeDrawing)]
        s2 == stopDrawing(s1)
    IN  IF ~s2.finishDrawingCallback THEN s2 ELSE callFinish(s2)

\* a click with an active drawing: push it, stop drawing, notify
commit(s) ==
    LET s1 == [s EXCEPT !.drawings = Append(@, s.activeDrawing)]
        s2 == stopDrawing(s1)
    IN  IF ~s2.finishDrawingCallback THEN s2 ELSE callFinish(s2)

\* timeToCoordinate(point.time) || 0: null and 0 are both falsy
orZero(c) == IF c = NoCoordinate THEN 0 ELSE c

\* a remap that sends the time of every point through the time scale, also
\* the missing time of a point that has only a logical index
logicalOf_ignoresTime(point, a) ==
    a.coordinateToLogical[
        orZero(IF point.time # 0 THEN a.timeToCoordinate[point.time] ELSE NoCoordinate)]

\* a remap that adds the index of the time to the index the point had
logicalOf_shifts(point, a) ==
    IF point.time # 0
    THEN LET l == a.coordinateToLogical[orZero(a.timeToCoordinate[point.time])]
         IN  IF l = NoLogical \/ point.logical = NoLogical THEN NoLogical
             ELSE point.logical + l
    ELSE point.logical

\* the logical index of a point under time scale a: through its time when
\* it has one (time 0 is falsy), its own logical index otherwise
logicalOf(point, a) ==
    IF point.time # 0
    THEN a.coordinateToLogical[orZero(a.timeToCoordinate[point.time])]
    ELSE point.logical

\* the points of a drawing, remapped; a null point stays null
newPoints(points, a) ==
    [k \in DOMAIN points |->
        IF points[k] = NoPoint THEN points[k]
        ELSE Pt(points[k].time, logicalOf(points[k], a), points[k].price)]

\* the loop of repositionOnTime, from registry entry i on
RECURSIVE repositionFrom(_, _, _)
repositionFrom(s, a, i) ==
    IF i > Len(s.drawings) THEN s
    ELSE LET d == s.drawings[i]
             np == newPoints(s.heap[d].points, a)
         IN  repositionFrom(updatePoints(s, d, np[1], np[2]), a, i + 1)

repositionOnTime(s, a) == repositionFrom(s, a, 1)

RECURSIVE onClick(_, _)
onClick(s, param) ==
    IF ~s.isDrawing THEN s
    ELSE LET point == eventToPoint(param) IN
    IF point = NoPoint THEN s
    ELSE IF s.drawingType = "Measure" THEN
        IF s.measureClickCount = 0 THEN measureFirstClick(s, point)
        ELSE IF s.measureClickCount = 1 THEN measureSecondClick(s)
        ELSE s
    ELSE IF s.activeDrawing = Null THEN
        IF s.drawingType = NoType THEN s
        ELSE LET s1 == firstClick(s, point)
             IN  IF isSingleClick(s.drawingType) THEN onClick(s1, param) ELSE s1
    ELSE commit(s)

\* a move handler that tells the drawings only while nothing is being placed
onMouseMove_hoverWhenIdle(s, param) ==
    IF param = NullParam THEN s
    ELSE IF ~s.isDrawing \/ s.activeDrawing = Null THEN [s EXCEPT !.hovered = s.drawings]
    ELSE LET point == eventToPoint(param) IN
    IF point = NoPoint THEN s
    ELSE updatePoints(s, s.activeDrawing, NoPoint, point)

\* a move handler that drags both points of the active drawing
onMouseMove_movesBoth(s, param) ==
    IF param = NullParam THEN s
    ELSE LET s1 == [s EXCEPT !.hovered = s.drawings] IN
    IF ~s1.isDrawing \/ s1.activeDrawing = Null THEN s1
    ELSE LET point == eventToPoint(param) IN
    IF point = NoPoint THEN s1
    ELSE updatePoints(s1, s1.activeDrawing, point, point)

onMouseMove(s, param) ==
    IF param = NullParam THEN s
    ELSE LET s1 == [s EXCEPT !.hovered = s.drawings] IN
    IF ~s1.isDrawing \/ s1.activeDrawing = Null THEN s1
    ELSE LET point == eventToPoint(param) IN
    IF point = NoPoint THEN s1
    ELSE updatePoints(s1, s1.activeDrawing, NoPoint, point)

----------------------------------------------------------------------------
(* The state machine *)

\* the state after construction: nothing drawn, the application's own
\* drawings constructed and detached, a finish callback supplied or not
Init ==
    /\ drawings = <<>>
    /\ activeDrawing = Null
    /\ isDrawing = FALSE
    /\ drawingType = NoType
    /\ measureClickCount = 0
    /\ finishDrawingCallback \in BOOLEAN
    /\ heap = ExtDrawings
    /\ finishCalls = 0
    /\ hovered = <<>>
    /\ axis = ChartAxis
    /\ lastOp = [op |-> "new", d |-> Null]
    /\ run = <<>>
    /\ lenAtBegin = 0
    /\ finishAtBegin = 0

\* the variables of the tool take the values of tool state s; no operation
\* of the tool changes the time scale
Apply(s) ==
    /\ UNCHANGED axis
    /\ drawings' = s.drawings
    /\ activeDrawing' = s.activeDrawing
    /\ isDrawing' = s.isDrawing
    /\ drawingType' = s.drawingType
    /\ measureClickCount' = s.measureClickCount
    /\ finishDrawingCallback' = s.finishDrawingCallback
    /\ heap' = s.heap
    /\ finishCalls' = s.finishCalls
    /\ hovered' = s.hovered

\* an operation other than a click or a move ends the recorded run
EndRun == run' = <<>> /\ lenAtBegin' = 0 /\ finishAtBegin' = 0

KeepRun == UNCHANGED <<run, lenAtBegin, finishAtBegin>>

BeginDrawing(T) ==
    /\ Apply(beginDrawing(Cur, T))
    /\ IF ~isDrawing
       THEN /\ run' = <<[op |-> "beginDrawing", type |-> T]>>
            /\ lenAtBegin' = Len(drawings)
            /\ finishAtBegin' = finishCalls
       ELSE EndRun

StopDrawing ==
    /\ Apply(stopDrawing(Cur))
    /\ EndRun

AddNewDrawing(d) ==
    /\ Len(drawings) < MaxLen
    /\ Apply(addNewDrawing(Cur, d))
    /\ EndRun

Delete(d) ==
    /\ Apply(delete(Cur, d))
    /\ EndRun

ClearDrawings ==
    /\ Apply(clearDrawings(Cur))
    /\ EndRun

\* a click event, while the handler has constructed at most n drawings; one
\* that resolves to a point joins the recorded run, which holds at most the
\* two clicks of a placement
ClickWithin(param, n) ==
    LET s2 == onClick(Cur, param) IN
    /\ Len(s2.heap) <= Len(ExtDrawings) + n
    /\ Len(s2.drawings) <= MaxLen
    /\ Apply(s2)
    /\ IF eventToPoint(param) = NoPoint THEN KeepRun
       ELSE IF run # <<>> /\ Len(run) < 3
       THEN /\ run' = Append(run, [op |-> "click", point |-> eventToPoint(param),
                                   active |-> s2.activeDrawing, moved |-> NoPoint])
            /\ UNCHANGED <<lenAtBegin, finishAtBegin>>
       ELSE EndRun

Click(param) == ClickWithin(param, MaxCreated)

\* a move event; between the first click of a recorded run and the next, a
\* move that resolves to a point is remembered with that click
MouseMove(param) ==
    /\ Apply(onMouseMove(Cur, param))
    /\ IF /\ Len(run) = 2 /\ run[2].active # Null
          /\ param # NullParam /\ eventToPoint(param) # NoPoint
       THEN /\ run' = [run EXCEPT ![2].moved = eventToPoint(param)]
            /\ UNCHANGED <<lenAtBegin, finishAtBegin>>
       ELSE KeepRun

RepositionOnTime ==
    /\ Apply(repositionOnTime(Cur, axis))
    /\ EndRun

\* the chart rescales or re-indexes its time axis (new data, a new symbol)
SetAxis(a) ==
    /\ axis' = a
    /\ hovered' = <<>>
    /\ UNCHANGED <<drawings, activeDrawing, isDrawing, drawingType, measureClickCount,
                   finishDrawingCallback, heap, finishCalls>>
    /\ EndRun

\* the operation that was run joins the history
Log(op, d) == lastOp' = [op |-> op, d |-> d]

\* the operations with their history, on events that resolve to one point
\* or to none, under a time scale that stays as it is
Next ==
    \/ \E T \in Types : BeginDrawing(T) /\ Log("beginDrawing", Null)
    \/ StopDrawing /\ Log("stopDrawing", Null)
    \/ \E d \in ExtRefs : AddNewDrawing(d) /\ Log("addNewDrawing", d)
    \/ \E d \in ExtRefs \cup Range(drawings) \cup {Null} : Delete(d) /\ Log("delete", d)
    \/ ClearDrawings /\ Log("clearDrawings", Null)
    \/ \E param \in {PointA, NoPoint} : Click(param) /\ Log("click", Null)
    \/ \E param \in {PointA, NoPoint} : MouseMove(param) /\ Log("move", Null)
    \/ MouseMove(NullParam) /\ Log("moveNullParam", Null)
    \/ RepositionOnTime /\ Log("repositionOnTime", Null)

\* the operations without their history, on events that resolve to either
\* point or to none
NextPoints ==
    \/ \E T \in Types : BeginDrawing(T) /\ UNCHANGED lastOp
    \/ StopDrawing /\ UNCHANGED lastOp
    \/ \E d \in ExtRefs : AddNewDrawing(d) /\ UNCHANGED lastOp
    \/ \E d \in ExtRefs \cup Range(drawings) \cup {Null} : Delete(d) /\ UNCHANGED lastOp
    \/ ClearDrawings /\ UNCHANGED lastOp
    \/ \E param \in Events : Click(param) /\ UNCHANGED lastOp
    \/ \E param \in Events \cup {NullParam} : MouseMove(param) /\ UNCHANGED lastOp
    \/ RepositionOnTime /\ UNCHANGED lastOp

\* the operations of Next without stopDrawing and addNewDrawing
NextNoStop ==
    \/ \E T \in Types : BeginDrawing(T) /\ Log("beginDrawing", Null)
    \/ \E d \in ExtRefs \cup Range(drawings) \cup {Null} : Delete(d) /\ Log("delete", d)
    \/ ClearDrawings /\ Log("clearDrawings", Null)
    \/ \E param \in {PointA, NoPoint} :
          ClickWithin(param, MaxCreatedNoStop) /\ Log("click", Null)
    \/ \E param \in {PointA, NoPoint} : MouseMove(param) /\ Log("move", Null)
    \/ MouseMove(NullParam) /\ Log("moveNullParam", Null)

\* placement of the variants that end in the registry, under the time scale
\* the events resolve under; addNewDrawing; changes of the time scale;
\* repositionOnTime
NextAxis ==
    \/ \E T \in Types \ {"Measure"} : BeginDrawing(T) /\ Log("beginDrawing", Null)
    \/ \E d \in ExtRefs : AddNewDrawing(d) /\ Log("addNewDrawing", d)
    \/ \E param \in Events : axis = ChartAxis /\ Click(param) /\ Log("click", Null)
    \/ \E param \in Events : axis = ChartAxis /\ MouseMove(param) /\ Log("move", Null)
    \/ RepositionOnTime /\ Log("repositionOnTime", Null)
    \/ \E a \in Axes \ {axis} : SetAxis(a) /\ Log("setAxis", Null)

Spec == Init /\ [][Next]_vars

SpecAxis == Init /\ [][NextAxis]_vars

SpecNoStop == Init /\ [][NextNoStop]_vars

SpecPoints == Init /\ [][NextPoints]_vars

----------------------------------------------------------------------------
(* Helpers of the properties *)

\* the variant the recorded run began with, NoType when no run is recorded
RunType == IF run = <<>> THEN NoType ELSE run[1].type

\* how many placement clicks the recorded run holds
RunClicks == IF run = <<>> THEN 0 ELSE Len(run) - 1

\* the last entry of the registry
LastDrawing == drawings[Len(drawings)]

\* what the finish callback adds to finishCalls when it is due once
Once == IF finishDrawingCallback THEN 1 ELSE 0

----------------------------------------------------------------------------
(* C1 - C3: the placement cycles, started in Idle *)

\* C1: beginDrawing(HorizontalLine) in Idle followed by one click that
\* resolves to a point ends with isDrawing false, no active drawing and the
\* registry one longer, its new last entry holding the clicked point twice.
C1_HorizontalLineOneClick ==
    (RunType = "HorizontalLine" /\ RunClicks = 1) =>
        /\ ~isDrawing
        /\ activeDrawing = Null
        /\ Len(drawings) = lenAtBegin + 1
        /\ heap[LastDrawing].points = <<run[2].point, run[2].point>>
        /\ heap[LastDrawing].type = "HorizontalLine"

C1_Witness ==
    /\ RunType = "HorizontalLine" /\ RunClicks = 1
    /\ run[2].point = PointB
    /\ lenAtBegin = 1
    /\ Len(drawings) = 2

\* C2: beginDrawing of a two-point variant other than Measure in Idle: after
\* the first resolving click isDrawing is still true and the registry has its
\* old length; after the second the registry is one longer and isDrawing is
\* false.
C2_TwoPointTwoClicks ==
    (RunType \in Types \ {"HorizontalLine", "Measure"}) =>
        /\ RunClicks = 1 =>
              /\ isDrawing
              /\ activeDrawing # Null
              /\ Len(drawings) = lenAtBegin
        /\ RunClicks = 2 =>
              /\ ~isDrawing
              /\ activeDrawing = Null
              /\ Len(drawings) = lenAtBegin + 1
              /\ LastDrawing = run[2].active

C2_Witness ==
    /\ RunType = "TrendLine" /\ RunClicks = 2
    /\ lastOp.op = "click"
    /\ lenAtBegin = 1
    /\ Len(drawings) = 2

\* C3: beginDrawing(Measure) in Idle: after click 1 the registry has its old
\* length, a Measure preview is attached and the finish callback has not run;
\* after click 2 that preview is detached, the registry still has its old
\* length and the finish callback (when the tool was given one) has run once.
C3_MeasureCycle ==
    (RunType = "Measure") =>
        /\ RunClicks = 1 =>
              /\ Len(drawings) = lenAtBegin
              /\ activeDrawing # Null
              /\ heap[activeDrawing].type = "Measure"
              /\ heap[activeDrawing].attached
              /\ finishCalls = finishAtBegin
        /\ RunClicks = 2 =>
              /\ Len(drawings) = lenAtBegin
              /\ activeDrawing = Null
              /\ ~heap[run[2].active].attached
              /\ finishCalls = finishAtBegin + Once

C3_Witness ==
    /\ RunType = "Measure" /\ RunClicks = 2
    /\ lastOp.op = "click"
    /\ finishDrawingCallback
    /\ finishCalls = 1

----------------------------------------------------------------------------
(* C4 - C8: invariants of the session state and of the registry *)

\* the drawings the click handler constructed
Created == (Len(ExtDrawings) + 1) .. Len(heap)

\* C4 (as claimed): no Measure constructed by a click is ever in the registry.
C4_MeasureNeverRegistered ==
    \A i \in 1 .. Len(drawings) :
        ~(drawings[i] \in Created /\ heap[drawings[i]].type = "Measure")

\* C5 (as claimed): measureClickCount > 0 implies the pending type is Measure.
C5_CountImpliesMeasure ==
    measureClickCount > 0 => drawingType = "Measure"

\* C6: a non-null active drawing implies isDrawing.
C6_ActiveImpliesDrawing ==
    activeDrawing # Null => isDrawing

C6_Witness ==
    /\ activeDrawing # Null
    /\ lastOp.op = "beginDrawing"
    /\ heap[activeDrawing].type # drawingType

\* every registry entry is attached, in tool state s
AllAttached(s) == \A i \in 1 .. Len(s.drawings) : s.heap[s.drawings[i]].attached

\* no reference occurs twice in seq
NoDuplicates(seq) == \A i, j \in 1 .. Len(seq) : seq[i] = seq[j] => i = j

\* how often reference d occurs in seq
Count(seq, d) == Cardinality({i \in 1 .. Len(seq) : seq[i] = d})

\* C7 (as claimed): every drawing in the registry is attached.
C7_RegistryAttached == AllAttached(Cur)

\* C7 (amended): an operation that starts with every registry entry attached
\* and no reference in the registry twice leaves every registry entry
\* attached.
C7_AttachedUnlessDuplicated ==
    [][(AllAttached(Cur) /\ NoDuplicates(drawings)) => AllAttached(Cur)']_vars

C7_Witness ==
    /\ lastOp.op = "delete"
    /\ lastOp.d \in Created
    /\ ~heap[lastOp.d].attached
    /\ drawings # <<>>
    /\ NoDuplicates(drawings)
    /\ AllAttached(Cur)

\* C8 (as claimed): the registry holds no reference more than once.
C8_NoDuplicates == NoDuplicates(drawings)

\* C8 (amended): a step that raises the number of times a reference is in the
\* registry to two or more is addNewDrawing called with that reference while
\* it is in the registry; a click adds the drawing it places once.
C8_DuplicatesOnlyByAdd ==
    [][\A d \in 1 .. Len(heap') :
          (Count(drawings', d) > Count(drawings, d) /\ Count(drawings', d) >= 2) =>
              /\ lastOp'.op = "addNewDrawing"
              /\ lastOp'.d = d
              /\ Count(drawings, d) >= 1
              /\ Count(drawings', d) = Count(drawings, d) + 1]_vars

C8_Witness ==
    /\ lastOp.op = "click"
    /\ Len(drawings) >= 2
    /\ LastDrawing \in Created
    /\ Count(drawings, LastDrawing) = 1

----------------------------------------------------------------------------
(* C9, C10: delete and clearDrawings *)

\* seq without its i-th entry
RemoveAt(seq, i) == [j \in 1 .. (Len(seq) - 1) |-> IF j < i THEN seq[j] ELSE seq[j + 1]]

\* the fields of the tool other than the registry and the drawing objects
Session(s) ==
    <<s.activeDrawing, s.isDrawing, s.drawingType, s.measureClickCount,
      s.finishDrawingCallback, s.finishCalls>>

\* C9: delete(d) with d null or not in the registry leaves the registry and
\* every drawing's attachment as they are; with d in the registry it removes
\* one entry holding d, keeps the others in their order, detaches d, and the
\* registry is one shorter.
C9_Delete ==
    [][lastOp'.op = "delete" =>
          LET d == lastOp'.d IN
          IF d = Null \/ d \notin Range(drawings)
          THEN /\ drawings' = drawings
               /\ heap' = heap
          ELSE /\ \E i \in 1 .. Len(drawings) :
                      drawings[i] = d /\ drawings' = RemoveAt(drawings, i)
               /\ Len(drawings') = Len(drawings) - 1
               /\ ~heap'[d].attached
               /\ \A e \in 1 .. Len(heap) : e # d => heap'[e] = heap[e]
               /\ heap'[d].points = heap[d].points]_vars

C9_Witness ==
    /\ lastOp.op = "delete"
    /\ Len(drawings) = 2
    /\ drawings[1] \in Created
    /\ drawings[2] = lastOp.d
    /\ ~heap[lastOp.d].attached

\* C10: clearDrawings leaves the registry empty and every drawing that was
\* in it detached, and touches no other drawing; on an empty registry it
\* changes nothing, so a second call in a row changes nothing.
C10_ClearDrawings ==
    [][lastOp'.op = "clearDrawings" =>
          /\ drawings' = <<>>
          /\ \A d \in Range(drawings) : ~heap'[d].attached
          /\ \A d \in 1 .. Len(heap) : d \notin Range(drawings) => heap'[d] = heap[d]
          /\ Session(Cur') = Session(Cur)
          /\ drawings = <<>> => heap' = heap
          /\ clearDrawings(Cur') = Cur']_vars

C10_Witness ==
    /\ lastOp.op = "clearDrawings"
    /\ drawings = <<>>
    /\ Len(heap) > Len(ExtDrawings)
    /\ \A d \in 1 .. Len(heap) : ~heap[d].attached /\ heap[d].type # "Measure"

----------------------------------------------------------------------------
(* C11, C12: what a move tells the drawings, when the finish callback runs *)

\* C11: a move event (a non-null MouseEventParams) calls
\* _handleHoverInteraction once for every entry of the registry, in registry
\* order, whatever isDrawing and the active drawing are and whether or not
\* the event resolves to a point; with an empty registry it calls none. No
\* other operation calls it.
C11_MoveHoversRegistry ==
    [][/\ lastOp'.op = "move" => hovered' = drawings /\ drawings' = drawings
       /\ lastOp'.op # "move" => hovered' = <<>>]_vars

C11_Witness ==
    /\ lastOp.op = "move"
    /\ Len(hovered) = 3
    /\ hovered[2] \in Created
    /\ isDrawing
    /\ activeDrawing = Null

\* a click step that pushes a drawing into the registry
CommitStep == lastOp'.op = "click" /\ Len(drawings') = Len(drawings) + 1

\* a click step that is the second click of a Measure
MeasureSecondStep ==
    /\ lastOp'.op = "click"
    /\ drawingType = "Measure"
    /\ measureClickCount = 1
    /\ measureClickCount' = 0

\* C12: the finish callback (when the tool was given one) runs once in a
\* click that pushes the active drawing into the registry and once in the
\* second click of a Measure, and in no other step.
C12_FinishOncePerPlacement ==
    [][finishCalls' = finishCalls + (IF CommitStep \/ MeasureSecondStep THEN Once ELSE 0)]_vars

C12_Witness ==
    /\ lastOp.op = "click"
    /\ finishCalls = 1
    /\ drawings # <<>>
    /\ heap[LastDrawing].type = "HorizontalLine"

----------------------------------------------------------------------------
(* C16, C18, C19: what a commit and stopDrawing leave behind *)

\* C16 (as claimed): a click that commits the active drawing leaves
\* isDrawing false and both the active drawing and the pending type null.
C16_CommitClearsType ==
    [][CommitStep => ~isDrawing' /\ activeDrawing' = Null /\ drawingType' = NoType]_vars

\* C16 (amended): a click that commits the active drawing leaves isDrawing
\* false, the active drawing null and measureClickCount 0; the pending type
\* stays what beginDrawing set, and a later click without a new beginDrawing
\* changes nothing.
C16_CommitKeepsType ==
    [][CommitStep =>
          /\ ~isDrawing'
          /\ activeDrawing' = Null
          /\ measureClickCount' = 0
          /\ drawingType' = drawingType
          /\ drawingType' \in Types
          /\ \A param \in Events : onClick(Cur', param) = Cur']_vars

C16_Witness ==
    /\ lastOp.op = "click"
    /\ ~isDrawing
    /\ drawingType = "TrendLine"
    /\ drawings # <<>>
    /\ LastDrawing \in Created
    /\ heap[LastDrawing].type = "TrendLine"

\* C18: stopDrawing sets isDrawing false, the active drawing null and
\* measureClickCount 0 and changes nothing else: the registry, every drawing
\* (points and attachment, the active preview included), the pending type
\* and the callback are as before.
C18_StopDrawingFrame ==
    [][lastOp'.op = "stopDrawing" =>
          /\ ~isDrawing'
          /\ activeDrawing' = Null
          /\ measureClickCount' = 0
          /\ drawings' = drawings
          /\ heap' = heap
          /\ drawingType' = drawingType
          /\ finishCalls' = finishCalls
          /\ finishDrawingCallback' = finishDrawingCallback
          /\ hovered' = <<>>]_vars

C18_Witness ==
    /\ lastOp.op = "stopDrawing"
    /\ \E d \in Created : heap[d].attached /\ d \notin Range(drawings)
    /\ drawings # <<>>

\* C19 (as claimed): the drawing a click pushes into the registry is of the
\* variant the last beginDrawing selected.
C19_CommitsPendingVariant ==
    [][CommitStep => heap'[drawings'[Len(drawings')]].type = drawingType]_vars

----------------------------------------------------------------------------
(* C20: previews without stopDrawing *)

\* C20 (as claimed): with no stopDrawing, every drawing a click constructed
\* and that is attached is the active drawing or in the registry.
C20_NoOrphanPreview ==
    \A d \in Created : heap[d].attached => d = activeDrawing \/ d \in Range(drawings)

----------------------------------------------------------------------------
(* C17: what a move changes *)

\* where the pointer was last seen after the first click of the recorded run
Tracked == IF run[2].moved = NoPoint THEN run[2].point ELSE run[2].moved

\* C17: whatever the move event, the registry and every drawing but the active
\* one of a placement are as before; the active drawing keeps its first point
\* and its last point becomes the pointer position when the event resolves to
\* one, and stays when it does not.  So after the first click of a two-point
\* run the preview is <<click, pointer>>, and the entry the second click
\* commits is <<first click, last pointer position>>.
C17_MoveTracksLastPoint ==
    /\ \A param \in Events \cup {NullParam} :
          LET s2 == onMouseMove(Cur, param)
              placing == isDrawing /\ activeDrawing # Null
              resolves == param # NullParam /\ eventToPoint(param) # NoPoint
          IN  /\ s2.drawings = drawings
              /\ DOMAIN s2.heap = DOMAIN heap
              /\ \A d \in DOMAIN heap :
                    IF placing /\ d = activeDrawing
                    THEN /\ s2.heap[d].type = heap[d].type
                         /\ s2.heap[d].attached = heap[d].attached
                         /\ s2.heap[d].points[1] = heap[d].points[1]
                         /\ s2.heap[d].points[2] =
                               IF resolves THEN eventToPoint(param) ELSE heap[d].points[2]
                    ELSE s2.heap[d] = heap[d]
    /\ (RunType \in Types \ {"HorizontalLine"}) =>
          /\ (RunClicks = 1 /\ run[2].active # Null) =>
                /\ activeDrawing = run[2].active
                /\ heap[activeDrawing].points = <<run[2].point, Tracked>>
          /\ (RunClicks = 2 /\ RunType # "Measure") =>
                /\ Len(drawings) = lenAtBegin + 1
                /\ heap[LastDrawing].points = <<run[2].point, Tracked>>

C17_Witness ==
    /\ RunType = "TrendLine" /\ RunClicks = 2
    /\ run[2].point = PointA /\ run[2].moved = PointB /\ run[3].point = PointB
    /\ Len(drawings) = 1
    /\ heap[LastDrawing].points = <<PointA, PointB>>

----------------------------------------------------------------------------
(* C13 - C15: repositionOnTime *)

\* the points of the drawings in the registry, as (drawing, slot) pairs
RegistryPoints == {<<d, k>> \in Range(drawings) \X {1, 2} : heap[d].points[k] # NoPoint}

\* C13: repositionOnTime changes nothing of the tool but points of drawings
\* in the registry; there it keeps the number of points, keeps a null point
\* null in its slot, keeps price and time of every point, and keeps the
\* logical index of every point that has no time.
C13_RepositionFrame ==
    [][lastOp'.op = "repositionOnTime" =>
        /\ drawings' = drawings
        /\ activeDrawing' = activeDrawing /\ isDrawing' = isDrawing
        /\ drawingType' = drawingType /\ measureClickCount' = measureClickCount
        /\ finishCalls' = finishCalls
        /\ DOMAIN heap' = DOMAIN heap
        /\ \A d \in DOMAIN heap :
              /\ d \notin Range(drawings) => heap'[d] = heap[d]
              /\ heap'[d].type = heap[d].type
              /\ heap'[d].attached = heap[d].attached
              /\ Len(heap'[d].points) = Len(heap[d].points)
              /\ \A k \in DOMAIN heap[d].points :
                    LET old == heap[d].points[k]
                        new == heap'[d].points[k]
                    IN  IF old = NoPoint THEN new = NoPoint
                        ELSE /\ new # NoPoint
                             /\ new.price = old.price
                             /\ new.time = old.time
                             /\ old.time = 0 => new.logical = old.logical]_vars

\* a repositionOnTime that moved a point with a time, next to a null slot and
\* to a point without a time
C13_Witness ==
    /\ lastOp.op = "repositionOnTime"
    /\ \E d \in Range(drawings) :
          /\ heap[d].points[1] # NoPoint /\ heap[d].points[1].time = 1
          /\ heap[d].points[1].logical = 0
          /\ heap[d].points[2] = NoPoint
    /\ \E d \in Range(drawings) : heap[d].points[2] = PointB

\* C14 (as claimed): after repositionOnTime, a point in the registry whose
\* time maps to no coordinate under the time scale has logical index 0.
C14_UnmappedGetsLogicalZero ==
    lastOp.op = "repositionOnTime" =>
        \A dk \in RegistryPoints :
            LET point == heap[dk[1]].points[dk[2]]
            IN  (point.time # 0 /\ axis.timeToCoordinate[point.time] = NoCoordinate)
                    => point.logical = 0

\* C15: under an unchanged time scale a second repositionOnTime changes
\* nothing: right after one, another leaves every drawing as it is, and in
\* any state two in a row give what one gives; a point without a time is
\* not changed by any of them.
C15_RepositionIdempotent ==
    LET once == repositionOnTime(Cur, axis)
        twice == repositionOnTime(once, axis)
    IN  /\ twice = once
        /\ lastOp.op = "repositionOnTime" => once.heap = heap
        /\ \A dk \in RegistryPoints :
              heap[dk[1]].points[dk[2]].time = 0 =>
                  once.heap[dk[1]].points[dk[2]] = heap[dk[1]].points[dk[2]]

\* after a repositionOnTime under a time scale other than the one the points
\* were placed under: a point with a time that has moved, a point without
\* one, and a drawing that is in the registry twice
C15_Witness ==
    /\ lastOp.op = "repositionOnTime"
    /\ axis # ChartAxis
    /\ \E d \in Range(drawings) :
          /\ heap[d].points[1] # NoPoint /\ heap[d].points[1].time = 1
          /\ heap[d].points[1].logical # 1
          /\ Count(drawings, d) = 2
    /\ \E dk \in RegistryPoints : heap[dk[1]].points[dk[2]] = PointB

====
